---- MODULE Spec2Model ----
(***************************************************************************)
(* Model of the deep-research application: the RateLimiter of              *)
(* src/src/deep_research.py, the two entry points                          *)
(* generate_clarification_questions and run_deep_research_pipeline, and    *)
(* the ResearchManager pipeline of src/src/research_manager.py.            *)
(*                                                                         *)
(* Strings that the code trims or tests for emptiness are sequences of     *)
(* one-character strings.  Time is in whole seconds; the calendar date is  *)
(* the day number of the clock.                                            *)
(***************************************************************************)
EXTENDS Integers, Sequences, FiniteSets, TLC

\* ------------------------------------------------------------------ bounds
\* Number of rate-limiter calls (check_limits, cleanup_old_requests) in one
\* behaviour of the rate-limiter specifications.
MaxChecks == 4
\* Number of requests (run_deep_research_pipeline and
\* generate_clarification_questions calls) in one behaviour of the application.
MaxRequests == 3
\* Largest number of searches in a plan the planner agent returns (it is asked
\* for HOW_MANY_SEARCHES = 3; the orchestrator takes whatever it returns).
MaxPlan == 2
\* Number of closed or cancelled runs that have something left on the event
\* loop at one time.
MaxAbandoned == 1

\* ------------------------------------------------------- program constants
\* cleanup_old_requests keeps a timestamp while now - timestamp < 60.
WindowSeconds == 60
\* get_today renders the clock as "%Y-%m-%d": one value per 86400 seconds.
SecondsPerDay == 86400
\* rate_limiter = RateLimiter(requests_per_minute=2, daily_limit=2)
GlobalRequestsPerMinute == 2
GlobalDailyLimit == 2

\* --------------------------------------------------------------- variables
VARIABLES
    requests_per_minute,  \* RateLimiter.requests_per_minute
    daily_limit,          \* RateLimiter.daily_limit
    request_time,         \* RateLimiter.request_time: user id -> list of timestamps
    daily_counts,         \* RateLimiter.daily_counts: user id -> {"date", "count"}
    clock,                \* what time.time() / datetime.now() read when last asked
    calls,                \* rate-limiter specifications: the limiter's calls so far, oldest first
    pc,                   \* where the current run stands
    args,                 \* the arguments of the current run's call
    frame,                \* the current run: parameters and locals of ResearchManager.run_pipeline and its callees
    tasks,                \* perform_searches: the state of each search task
    completed,            \* as_completed: what the finished tasks returned, not yet taken by the loop
    results,              \* perform_searches: the results collected so far
    stream,               \* the values the run has yielded so far
    remote,               \* Runner.run calls started by the current run, per agent
    admission,            \* what the current run's check_limits call saw and left, if it made one
    runs,                 \* runs of run_deep_research_pipeline started so far
    entry,                \* the generator function the caller of the current run called
    escaped,              \* the message of the exception that left the run's generator, if one did
    abandoned,            \* what closed and cancelled runs left on the event loop, oldest first
    cpc,                  \* where the current generate_clarification_questions call stands
    cargs,                \* its arguments
    cret,                 \* its return value
    cremote,              \* Runner.run(clarifier_agent) calls it started
    cadmission,           \* what its check_limits call saw and left, if it made one
    clarifies             \* generate_clarification_questions calls started so far

rlvars == <<requests_per_minute, daily_limit, request_time, daily_counts, clock, calls>>
runvars ==
    <<pc, args, frame, tasks, completed, results, stream, remote, admission, runs, entry,
      escaped, abandoned>>
clarvars == <<cpc, cargs, cret, cremote, cadmission, clarifies>>
vars == <<rlvars, runvars, clarvars>>

\* ------------------------------------------------------------ rate limiter
\* The identifiers the limiter is asked about.
UserIds == {"anonymous", "10.0.0.1"}

\* The "date" of a daily_counts entry that has never been written: "".
NoDate == -1

\* The clock values a behaviour starts at: midnight, and one second before the next one.
StartTimes == {0, SecondsPerDay - 1}

\* The time that passes between one reading of the clock and the next.
Elapsed == {0, 1, WindowSeconds - 1, SecondsPerDay}

\* The configurations of the rate-limiter specification.
RpmChoices == {1, 2}
DailyChoices == {1, 2, 3}

get_today(now) == now \div SecondsPerDay

\* [timestamp for timestamp in self.request_time[user_id] if now - timestamp < 60]
RECURSIVE cleanup_old_requests(_, _)
cleanup_old_requests(times, now) ==
    IF times = <<>> THEN <<>>
    ELSE IF now - Head(times) < WindowSeconds
         THEN <<Head(times)>> \o cleanup_old_requests(Tail(times), now)
         ELSE cleanup_old_requests(Tail(times), now)

\* str(n) of a small natural number, as an f-string renders it.
Digit(n) == CASE n = 0 -> "0" [] n = 1 -> "1" [] n = 2 -> "2" [] n = 3 -> "3" [] n = 4 -> "4"
              [] n = 5 -> "5" [] n = 6 -> "6" [] n = 7 -> "7" [] n = 8 -> "8" [] n = 9 -> "9"
RECURSIVE IntToStr(_)
IntToStr(n) == IF n < 10 THEN Digit(n) ELSE IntToStr(n \div 10) \o Digit(n % 10)

MinuteReason(rpm) == <<"Rate limit exceeded: Max ", IntToStr(rpm), " requests per minute.">>
DailyReason(dl) == <<"Daily limit exceeded: Max ", IntToStr(dl), " requests per day.">>
OkReason == <<"OK">>

\* Mutant: the window test lets one request too many through.
MinuteLimitReached_OffByOne(recent, rpm) == recent > rpm

\* The window test of check_limits.
MinuteLimitReached(recent, rpm) == recent >= rpm

\* Mutant: the daily test lets one request too many through.
DailyLimitReached_OffByOne(count, dl) == count > dl

\* The daily test of check_limits.
DailyLimitReached(count, dl) == count >= dl

\* Mutant: a new day updates the stored date but keeps the old count.
RollDate_KeepsCount(user_data, today) ==
    IF user_data.date # today THEN [date |-> today, count |-> user_data.count] ELSE user_data

\* The daily entry after the date comparison of check_limits.
\* Mutant: every check starts the day's count anew.
RollDate_Always(user_data, today) == [date |-> today, count |-> 0]

RollDate(user_data, today) ==
    IF user_data.date # today THEN [date |-> today, count |-> 0] ELSE user_data

\* Mutant: the attempt is recorded before the daily test, so a check denied for
\* the daily limit still takes a slot of the minute window.
check_limits_RecordsDenied(times, user_data, now, rpm, dl) ==
    LET pruned == cleanup_old_requests(times, now)
        rolled == RollDate(user_data, get_today(now))
    IN  IF MinuteLimitReached(Len(pruned), rpm)
        THEN [ok |-> FALSE, msg |-> MinuteReason(rpm), times |-> pruned, data |-> user_data]
        ELSE IF DailyLimitReached(rolled.count, dl)
        THEN [ok |-> FALSE, msg |-> DailyReason(dl), times |-> Append(pruned, now),
              data |-> rolled]
        ELSE [ok |-> TRUE, msg |-> OkReason, times |-> Append(pruned, now),
              data |-> [rolled EXCEPT !.count = @ + 1]]

\* Mutant: the daily counter counts every attempt that reaches the minute test,
\* denied ones included.
check_limits_CountsAttempts(times, user_data, now, rpm, dl) ==
    LET pruned == cleanup_old_requests(times, now)
        rolled == RollDate(user_data, get_today(now))
    IN  IF MinuteLimitReached(Len(pruned), rpm)
        THEN [ok |-> FALSE, msg |-> MinuteReason(rpm), times |-> pruned,
              data |-> [user_data EXCEPT !.count = @ + 1]]
        ELSE IF DailyLimitReached(rolled.count, dl)
        THEN [ok |-> FALSE, msg |-> DailyReason(dl), times |-> pruned, data |-> rolled]
        ELSE [ok |-> TRUE, msg |-> OkReason, times |-> Append(pruned, now),
              data |-> [rolled EXCEPT !.count = @ + 1]]

\* check_limits as a function of the limiter's state for one user and the clock:
\* the returned pair and the state it leaves.
check_limits(times, user_data, now, rpm, dl) ==
    LET pruned == cleanup_old_requests(times, now)
        rolled == RollDate(user_data, get_today(now))
    IN  IF MinuteLimitReached(Len(pruned), rpm)
        THEN [ok |-> FALSE, msg |-> MinuteReason(rpm), times |-> pruned, data |-> user_data]
        ELSE IF DailyLimitReached(rolled.count, dl)
        THEN [ok |-> FALSE, msg |-> DailyReason(dl), times |-> pruned, data |-> rolled]
        ELSE [ok |-> TRUE, msg |-> OkReason, times |-> Append(pruned, now),
              data |-> [rolled EXCEPT !.count = @ + 1]]

\* One entry of calls: what a check_limits call saw and what it left.
CallRecord(u, r, times, user_data, now) ==
    [op |-> "check_limits", user |-> u, at |-> now, ok |-> r.ok, msg |-> r.msg,
     times_before |-> times, data_before |-> user_data,
     times_after |-> r.times, data_after |-> r.data]

\* The admission record of a request that did not call check_limits.
NoCall ==
    [op |-> "", user |-> "", at |-> 0, ok |-> FALSE, msg |-> <<>>,
     times_before |-> <<>>, data_before |-> [date |-> NoDate, count |-> 0],
     times_after |-> <<>>, data_after |-> [date |-> NoDate, count |-> 0]]

\* Mutant: the check answers from what it read, but its writes are lost (another
\* check ran between its test and its update).
Admit_LostUpdate(u, r, now) ==
    /\ request_time' = request_time
    /\ daily_counts' = daily_counts
    /\ clock' = now

\* Mutant: one window and one daily record shared by all identifiers.
Admit_Shared(u, r, now) ==
    /\ request_time' = [v \in UserIds |-> r.times]
    /\ daily_counts' = [v \in UserIds |-> r.data]
    /\ clock' = now

\* The effect of rate_limiter.check_limits(u), answering r at time now, on the
\* limiter's state.
Admit(u, r, now) ==
    /\ request_time' = [request_time EXCEPT ![u] = r.times]
    /\ daily_counts' = [daily_counts EXCEPT ![u] = r.data]
    /\ clock' = now

InitLimiterState ==
    /\ request_time = [u \in UserIds |-> <<>>]
    /\ daily_counts = [u \in UserIds |-> [date |-> NoDate, count |-> 0]]
    /\ calls = <<>>

\* a caller invokes check_limits(u) directly
CheckLimits ==
    /\ Len(calls) < MaxChecks
    /\ \E u \in UserIds, d \in Elapsed :
          LET r == check_limits(request_time[u], daily_counts[u], clock + d,
                                requests_per_minute, daily_limit)
          IN  /\ Admit(u, r, clock + d)
              /\ calls' = Append(calls, CallRecord(u, r, request_time[u], daily_counts[u],
                                                   clock + d))
    /\ UNCHANGED <<requests_per_minute, daily_limit>>
    /\ UNCHANGED <<runvars, clarvars>>

\* The entry of calls for a cleanup_old_requests call: it returns nothing (no
\* pair: ok and msg are empty) and leaves the list pruned.
CleanupRecord(u, pruned, times, user_data, now) ==
    [op |-> "cleanup_old_requests", user |-> u, at |-> now, ok |-> FALSE, msg |-> <<>>,
     times_before |-> times, data_before |-> user_data,
     times_after |-> pruned, data_after |-> user_data]

\* The time that passes before a direct cleanup_old_requests call reads the clock.
CleanupElapsed == {0, 1, WindowSeconds}

\* a caller invokes cleanup_old_requests(u) directly: it reads the clock and
\* replaces the list of u by its timestamps younger than 60 seconds, whether or
\* not that removes any; nothing else is written.
CleanupOldRequests ==
    /\ Len(calls) < MaxChecks
    /\ \E u \in UserIds, d \in CleanupElapsed :
          LET pruned == cleanup_old_requests(request_time[u], clock + d)
          IN  /\ request_time' = [request_time EXCEPT ![u] = pruned]
              /\ clock' = clock + d
              /\ calls' = Append(calls, CleanupRecord(u, pruned, request_time[u],
                                                      daily_counts[u], clock + d))
    /\ UNCHANGED <<requests_per_minute, daily_limit, daily_counts>>
    /\ UNCHANGED <<runvars, clarvars>>

\* ------------------------------------------------------------ Python values
\* A str is a sequence of one-character strings; a message is a sequence of
\* string pieces.  Where a parameter may hold a bool or a str, the value is tagged.
PyBool(b) == [t |-> "bool", v |-> b]
PyStr(s) == [t |-> "str", v |-> s]

\* bool(x): a str is true when it is not empty.
Truthy(x) == IF x.t = "bool" THEN x.v ELSE x.v # <<>>

\* str(x) as an f-string renders it.
Render(x) == IF x.t = "bool" THEN (IF x.v THEN <<"True">> ELSE <<"False">>) ELSE x.v

\* The characters str.strip() removes: the ones str.isspace() is true of.  Those
\* that a module can write with an escape are written so; every other one is
\* named by its Python escape (the vertical tab is the string \x0b, the
\* ideographic space is the string \u3000).
PyWhitespace ==
    {" ", "\t", "\n", "\r", "\f", "\\x0b", "\\x1c", "\\x1d", "\\x1e", "\\x1f",
     "\\x85", "\\xa0", "\\u1680", "\\u2000", "\\u2001", "\\u2002", "\\u2003",
     "\\u2004", "\\u2005", "\\u2006", "\\u2007", "\\u2008", "\\u2009", "\\u200a",
     "\\u2028", "\\u2029", "\\u202f", "\\u205f", "\\u3000"}

IsSpace(c) == c \in PyWhitespace

RECURSIVE lstrip(_)
lstrip(s) == IF s # <<>> /\ IsSpace(Head(s)) THEN lstrip(Tail(s)) ELSE s

RECURSIVE rstrip(_)
rstrip(s) ==
    IF s # <<>> /\ IsSpace(s[Len(s)]) THEN rstrip(SubSeq(s, 1, Len(s) - 1)) ELSE s

\* str.strip()
strip(s) == rstrip(lstrip(s))

\* sep.join(parts), for parts that are sequences of pieces
RECURSIVE Join(_, _)
Join(sep, parts) ==
    IF parts = <<>> THEN <<>>
    ELSE IF Len(parts) = 1 THEN parts[1]
    ELSE parts[1] \o sep \o Join(sep, Tail(parts))

\* zip(xs, ys): as long as the shorter of the two
Zip(xs, ys) ==
    [i \in 1..(IF Len(xs) < Len(ys) THEN Len(xs) ELSE Len(ys)) |-> <<xs[i], ys[i]>>]

\* ------------------------------------------------------------------ inputs
\* The application starts two minutes before midnight, and between one request
\* and the next no time or one minute passes: a second request can fall in the
\* first one's window or after it, on the same day or on the next.
AppStart == SecondsPerDay - 2 * WindowSeconds
AppElapsed == {0, WindowSeconds}

\* The queries a caller supplies: empty, blank (a tab and a space), and a text
\* with spaces around it.
Texts == {<<>>, <<"\t", " ">>, <<" ", "a", " ">>}
GoodQuery == <<" ", "a", " ">>

\* Questions and answers that are all non-empty after trimming, and ones with
\* an empty answer and with a blank question.
GoodQA == [q |-> <<<<"q">>, <<"q">>, <<" ", "q">>>>, a |-> <<<<"a">>, <<"a", " ">>, <<"a">>>>]
EmptyAnswerQA == [q |-> <<<<"q">>, <<"q">>, <<"q">>>>, a |-> <<<<"a">>, <<>>, <<"a">>>>]
BlankQuestionQA ==
    [q |-> <<<<"q">>, <<"\n">>, <<"q">>>>, a |-> <<<<"a">>, <<"a">>, <<" ", "\\u3000">>>>]

\* A recipient address a caller supplies.
Recipient == <<"r", "@", "x">>

\* The arguments of one run_deep_research_pipeline call.
Args(query, qa, send_email, recipient_email, request) ==
    [query |-> query, questions |-> qa.q, answers |-> qa.a, send_email |-> send_email,
     recipient_email |-> recipient_email, request |-> request]

\* request = None, and the gradio request the application's calls arrive with:
\* one with an X-Forwarded-For header.
NoRequest == [none |-> TRUE, forwarded_for |-> <<>>, host |-> ""]
Requests == {[none |-> FALSE, forwarded_for |-> <<"10.0.0.1", "10.0.0.9">>, host |-> "h"]}

\* The calls of run_deep_research_pipeline a behaviour draws from: every query
\* with good answers, with and without delivery; delivery requested without a
\* recipient and a recipient without delivery requested; an empty answer and a
\* blank question, alone and together with an empty query and a missing recipient.
PipelineInputs ==
    {Args(query, GoodQA, FALSE, <<>>, request) : query \in Texts, request \in Requests}
        \cup {Args(GoodQuery, qa, FALSE, <<>>, request) :
                 qa \in {EmptyAnswerQA, BlankQuestionQA}, request \in Requests}
        \cup {Args(GoodQuery, GoodQA, s, r, request) :
                 s \in BOOLEAN, r \in {<<>>, Recipient}, request \in Requests}
        \cup {Args(<<>>, EmptyAnswerQA, TRUE, <<>>, request) : request \in Requests}
        \cup {Args(GoodQuery, BlankQuestionQA, TRUE, <<>>, request) : request \in Requests}

\* What Runner.run(planner_agent, ...) can do: raise, or return a plan of n searches.
WebSearchItem(i) == [query |-> <<"term", IntToStr(i)>>, reason |-> <<"why", IntToStr(i)>>]
WebSearchPlan(n) == [searches |-> [i \in 1..n |-> WebSearchItem(i)]]
PlannerOutcomes ==
    {[fault |-> TRUE, plan |-> WebSearchPlan(0)]}
        \cup {[fault |-> FALSE, plan |-> WebSearchPlan(n)] : n \in 0..MaxPlan}

\* What Runner.run(writer_agent, ...) can do: raise, or return a ReportData.
ReportData(summary, body) ==
    [short_summary |-> summary, markdown_report |-> body, follow_up_questions |-> <<"f">>]
NoReport == ReportData(<<>>, <<>>)
WriterOutcomes ==
    {[fault |-> TRUE, report |-> NoReport]}
        \cup {[fault |-> FALSE, report |-> ReportData(sm, md)] :
                sm \in {<<>>, <<"s">>}, md \in {<<>>, <<"#", "r">>}}

\* What Runner.run(clarifier_agent, ...) can do: raise, or return a list of questions.
ClarifierOutcomes ==
    {[fault |-> TRUE, questions |-> <<>>],
     [fault |-> FALSE, questions |-> <<>>],
     [fault |-> FALSE, questions |-> <<<<"q1">>, <<"q2">>, <<"q3">>>>]}

\* str(e) of an exception raised inside Runner.run
FaultText == <<"fault">>

\* ---------------------------------------------------------------- messages
\* The cross mark (U+274C) and the space every failure message starts with.
FailureMark == "[cross mark] "
Fail(msg) == <<FailureMark>> \o msg

EmptyQueryText == <<"Please enter a research query first.">>
NoRecipientText == <<"Please enter a recipient email to send the report.">>
ValidationFailedText(msg) == <<"Input validation failed: ">> \o msg
EmailNotProvidedText == <<"Email sending requested but no recipient email provided.">>
PipelineFailedText(msg) == <<"Research pipeline failed: ">> \o msg
PlannerFailedText(msg) == <<"Search Planner failed: ">> \o msg
NoSearchesText == <<"Planner agent returned no searches">>
WriterFailedText(msg) == <<"Report Writing failed: ">> \o msg
IncompleteReportText == <<"Writer agent returned incomplete report">>
EmailFailedText(msg) == <<"Email sending failed: ">> \o msg

\* Mutant: execute_pipeline_research yields no trace line of its own.
TraceEvent_Missing(trace_id) == <<"Planning searches based on clarifications...">>

TraceEvent(trace_id) ==
    <<"Trace: https://platform.openai.com/traces/trace?trace_id=", trace_id>>
PlanningEvent == <<"Planning searches based on clarifications...">>
StartingEvent(n) == <<"Starting ", IntToStr(n), " searches...">>
WritingEvent == <<"Analyzing search results and writing report...">>
SendingEvent(to) == <<"Sending report to ">> \o Render(to) \o <<"...">>
SentEvent(to) == <<"Report sent to ">> \o Render(to) \o <<".">>
SkippedEvent == <<"Email sending skipped.">>

\* -------------------------------------------------------------- get_user_id
get_user_id(request) ==
    IF request.none THEN "anonymous"
    ELSE IF request.forwarded_for # <<>> THEN request.forwarded_for[1]
    ELSE IF request.host # "" THEN request.host
    ELSE "unknown_user"

\* ---------------------------------------------------------- ResearchManager
\* The first complaint of the loop over zip(questions, answers) from pair i on.
RECURSIVE FirstEmptyItem(_, _)
FirstEmptyItem(pairs, i) ==
    IF i > Len(pairs) THEN [ok |-> TRUE, msg |-> <<>>]
    ELSE IF strip(pairs[i][1]) = <<>>
         THEN [ok |-> FALSE, msg |-> <<"Question ", IntToStr(i), " is empty">>]
    ELSE IF strip(pairs[i][2]) = <<>>
         THEN [ok |-> FALSE, msg |-> <<"Answer ", IntToStr(i), " is empty">>]
    ELSE FirstEmptyItem(pairs, i + 1)

\* Mutant: validate_input without the comparison of the two lengths.
validate_input_NoCountCheck(query, questions, answers) ==
    IF query = <<>> \/ strip(query) = <<>>
    THEN [ok |-> FALSE, msg |-> <<"Query cannot be empty">>]
    ELSE FirstEmptyItem(Zip(questions, answers), 1)

validate_input(query, questions, answers) ==
    IF query = <<>> \/ strip(query) = <<>>
    THEN [ok |-> FALSE, msg |-> <<"Query cannot be empty">>]
    ELSE IF Len(questions) # Len(answers)
    THEN [ok |-> FALSE,
          msg |-> <<"Mismatch: ", IntToStr(Len(questions)), " questions but ",
                    IntToStr(Len(answers)), " answers">>]
    ELSE FirstEmptyItem(Zip(questions, answers), 1)

\* final_prompt of plan_searches
PlannerPrompt(query, questions, answers) ==
    LET pairs == Zip(questions, answers)
        lines == [i \in 1..Len(pairs) |->
                     <<"Q: ">> \o pairs[i][1] \o <<"\nA: ">> \o pairs[i][2]]
    IN  <<"Query: ">> \o query \o <<"\n\nClarifications:\n">> \o Join(<<"\n">>, lines)

\* input_text of write_report
WriterInput(query, search_results) ==
    <<"Original query: ">> \o query \o <<"\n\nSearch Results:\n">>
        \o Join(<<"\n---\n">>, search_results)

\* str(result.final_output) of the search for item i
SearchResult(i) == <<"summary", IntToStr(i)>>

\* Mutant: write_report checks the body only.
ReportComplete_BodyOnly(report) == ~(report.markdown_report = <<>>)

\* The report passes the check of write_report.
ReportComplete(report) ==
    ~(report.markdown_report = <<>> \/ report.short_summary = <<>>)

\* Mutant: step 4 tests "send_email and not recipient_email".
WantsEmail_Negated(send_email, recipient_email) == Truthy(send_email) /\ ~Truthy(recipient_email)

\* The condition of step 4 of run_agents_step.
WantsEmail(send_email, recipient_email) == Truthy(send_email) /\ Truthy(recipient_email)

\* The email validation of run_pipeline.
EmailMissing(send_email, recipient_email) == Truthy(send_email) /\ ~Truthy(recipient_email)

NoFrame ==
    [query |-> <<>>, questions |-> <<>>, answers |-> <<>>,
     recipient_email |-> PyStr(<<>>), send_email |-> PyBool(FALSE),
     trace_id |-> "", prompt |-> <<>>, plan |-> WebSearchPlan(0),
     writer_input |-> <<>>, report |-> NoReport]

\* run_pipeline up to its first yield: the frame it runs in, the value yielded
\* and where the generator is suspended ("failed": at the yield of a failure
\* message, with the return after it still to run).
run_pipeline(query, questions, answers, recipient_email, send_email, trace_id) ==
    LET f == [NoFrame EXCEPT !.query = query, !.questions = questions, !.answers = answers,
                             !.recipient_email = recipient_email, !.send_email = send_email]
        v == validate_input(query, questions, answers)
    IN  IF ~v.ok
        THEN [frame |-> f, event |-> Fail(ValidationFailedText(v.msg)), pc |-> "failed"]
        ELSE IF EmailMissing(send_email, recipient_email)
        THEN [frame |-> f, event |-> Fail(EmailNotProvidedText), pc |-> "failed"]
        ELSE [frame |-> [f EXCEPT !.trace_id = trace_id],
              event |-> TraceEvent(trace_id), pc |-> "trace"]

\* The positional call of run_pipeline in run_deep_research_pipeline:
\* run_pipeline(query, questions, answers, send_email, recipient_email).
CallRunPipeline(query, questions, answers, send_email, recipient_email, trace_id) ==
    run_pipeline(query, questions, answers, PyBool(send_email), PyStr(recipient_email),
                 trace_id)

\* The questions and answers run_deep_research_pipeline hands to run_pipeline.
StripAll(xs) == [i \in 1..Len(xs) |-> strip(xs[i])]

\* run_deep_research_pipeline up to its first yield, given what check_limits
\* answers (r) if it is asked: whether it was asked, the value yielded, and the
\* frame of run_pipeline (NoFrame if it was not called) and the position of the
\* run after it.
run_deep_research_pipeline(a, r, trace_id) ==
    IF a.query = <<>> \/ strip(a.query) = <<>>
    THEN [checked |-> FALSE, frame |-> NoFrame, event |-> Fail(EmptyQueryText), pc |-> "failed"]
    ELSE IF a.send_email /\ a.recipient_email = <<>>
    THEN [checked |-> FALSE, frame |-> NoFrame, event |-> Fail(NoRecipientText),
          pc |-> "failed"]
    ELSE IF ~r.ok
    THEN [checked |-> TRUE, frame |-> NoFrame, event |-> Fail(r.msg), pc |-> "failed"]
    ELSE LET p == CallRunPipeline(a.query, StripAll(a.questions), StripAll(a.answers),
                                  a.send_email, a.recipient_email, trace_id)
         IN  [checked |-> TRUE, frame |-> p.frame, event |-> p.event, pc |-> p.pc]

NoArgs ==
    [query |-> <<>>, questions |-> <<>>, answers |-> <<>>, send_email |-> FALSE,
     recipient_email |-> <<>>, request |-> NoRequest]

NoRemote == [planner |-> 0, searcher |-> 0, writer |-> 0, email |-> 0]

\* gen_trace_id(): a fresh identifier per call
gen_trace_id(n) == "trace_" \o IntToStr(n)

\* ------------------------------------------------ the run: one step per action
\* The limiter is left as it is.
LimiterUnchanged == UNCHANGED <<request_time, daily_counts, clock>>

\* The positions at which no run is under way: none was started, or the last
\* one's generator returned, was left by an exception, or was closed or cancelled.
Over == {"idle", "done", "raised", "cancelled"}

\* A caller starts run_deep_research_pipeline; the generator runs to its first yield.
StartPipeline ==
    /\ pc \in Over
    /\ runs + clarifies < MaxRequests
    /\ \E a \in PipelineInputs, d \in AppElapsed :
          LET u == get_user_id(a.request)
              now == clock + d
              r == check_limits(request_time[u], daily_counts[u], now,
                                requests_per_minute, daily_limit)
              o == run_deep_research_pipeline(a, r, gen_trace_id(runs + 1))
          IN  /\ args' = a
              /\ IF o.checked
                 THEN /\ Admit(u, r, now)
                      /\ admission' = CallRecord(u, r, request_time[u], daily_counts[u], now)
                 ELSE LimiterUnchanged /\ admission' = NoCall
              /\ frame' = o.frame
              /\ stream' = <<o.event>>
              /\ pc' = o.pc
    /\ runs' = runs + 1
    /\ entry' = "run_deep_research_pipeline"
    /\ escaped' = <<>>
    /\ abandoned' = abandoned
    /\ tasks' = <<>>
    /\ completed' = <<>>
    /\ results' = <<>>
    /\ remote' = NoRemote
    /\ UNCHANGED <<requests_per_minute, daily_limit, calls, clarvars>>

\* The calls of ResearchManager.run_pipeline a caller makes directly: good
\* arguments with and without delivery, an empty and a blank query, two
\* questions for three answers and three for two, delivery without a recipient.
MismatchQA == [q |-> <<<<"q">>, <<"q">>>>, a |-> <<<<"a">>, <<"a">>, <<"a">>>>]
MismatchAQ == [q |-> <<<<"q">>, <<"q">>, <<"q">>>>, a |-> <<<<"a">>, <<"a">>>>]
RunPipelineInputs ==
    {Args(query, GoodQA, FALSE, <<>>, NoRequest) : query \in Texts}
        \cup {Args(GoodQuery, qa, s, <<>>, NoRequest) :
                 qa \in {MismatchQA, MismatchAQ, GoodQA}, s \in BOOLEAN}
        \cup {Args(GoodQuery, GoodQA, TRUE, Recipient, NoRequest),
              Args(<<>>, MismatchQA, TRUE, <<>>, NoRequest)}

\* A caller starts ResearchManager.run_pipeline itself, with the arguments in
\* the order of its signature; the generator runs to its first yield.
StartRunPipeline ==
    /\ pc \in Over
    /\ runs + clarifies < MaxRequests
    /\ \E a \in RunPipelineInputs :
          LET o == run_pipeline(a.query, a.questions, a.answers, PyStr(a.recipient_email),
                                PyBool(a.send_email), gen_trace_id(runs + 1))
          IN  /\ args' = a
              /\ frame' = o.frame
              /\ stream' = <<o.event>>
              /\ pc' = o.pc
    /\ admission' = NoCall
    /\ runs' = runs + 1
    /\ entry' = "run_pipeline"
    /\ escaped' = <<>>
    /\ abandoned' = abandoned
    /\ tasks' = <<>>
    /\ completed' = <<>>
    /\ results' = <<>>
    /\ remote' = NoRemote
    /\ UNCHANGED <<rlvars, clarvars>>

\* The calls of execute_pipeline_research and of run_agents_step a caller makes
\* directly: nothing validates their arguments.
NoQA == [q |-> <<>>, a |-> <<>>]
InnerInputs ==
    {Args(<<>>, NoQA, FALSE, <<>>, NoRequest),
     Args(GoodQuery, GoodQA, TRUE, <<>>, NoRequest),
     Args(GoodQuery, GoodQA, TRUE, Recipient, NoRequest)}

\* The frame of a run that starts below run_pipeline.
InnerFrame(a, trace_id) ==
    [NoFrame EXCEPT !.query = a.query, !.questions = a.questions, !.answers = a.answers,
                    !.recipient_email = PyStr(a.recipient_email),
                    !.send_email = PyBool(a.send_email), !.trace_id = trace_id]

\* A caller starts ResearchManager.execute_pipeline_research itself: it yields
\* the trace line, whatever the arguments are.
StartExecutePipelineResearch ==
    /\ pc \in Over
    /\ runs + clarifies < MaxRequests
    /\ \E a \in InnerInputs :
          /\ args' = a
          /\ frame' = InnerFrame(a, gen_trace_id(runs + 1))
          /\ stream' = <<TraceEvent(gen_trace_id(runs + 1))>>
    /\ pc' = "trace"
    /\ admission' = NoCall
    /\ runs' = runs + 1
    /\ entry' = "execute_pipeline_research"
    /\ escaped' = <<>>
    /\ abandoned' = abandoned
    /\ tasks' = <<>>
    /\ completed' = <<>>
    /\ results' = <<>>
    /\ remote' = NoRemote
    /\ UNCHANGED <<rlvars, clarvars>>

\* A caller starts ResearchManager.run_agents_step itself: it yields the
\* planning event.
StartRunAgentsStep ==
    /\ pc \in Over
    /\ runs + clarifies < MaxRequests
    /\ \E a \in InnerInputs :
          /\ args' = a
          /\ frame' = InnerFrame(a, "")
    /\ stream' = <<PlanningEvent>>
    /\ pc' = "planning"
    /\ admission' = NoCall
    /\ runs' = runs + 1
    /\ entry' = "run_agents_step"
    /\ escaped' = <<>>
    /\ abandoned' = abandoned
    /\ tasks' = <<>>
    /\ completed' = <<>>
    /\ results' = <<>>
    /\ remote' = NoRemote
    /\ UNCHANGED <<rlvars, clarvars>>

\* What the parts of the run leave alone, but for the exception a step may raise.
RunFrameRaising == UNCHANGED <<rlvars, args, admission, runs, entry, abandoned, clarvars>>

\* What the parts of the run leave alone.
RunFrame == RunFrameRaising /\ UNCHANGED escaped

\* The run passes through run_pipeline, whose handler catches every Exception.
Guarded == entry \in {"run_deep_research_pipeline", "run_pipeline"}

\* What is left of the frame when the generators below run_pipeline are gone:
\* the parameters of run_pipeline.
ParametersOf(f) ==
    [NoFrame EXCEPT !.query = f.query, !.questions = f.questions, !.answers = f.answers,
                    !.recipient_email = f.recipient_email, !.send_email = f.send_email]

\* Mutant: run_pipeline has no handler; the exception ends the stream without a message.
Raise_Uncaught(msg) ==
    /\ stream' = stream
    /\ pc' = "raised"
    /\ escaped' = msg
    /\ frame' = NoFrame
    /\ tasks' = <<>>
    /\ completed' = <<>>
    /\ results' = <<>>

\* An exception leaves run_agents_step.  run_pipeline catches it, yields the
\* failure message and is suspended there, its own frame alive; a run started
\* below run_pipeline has no handler and the exception reaches the caller.
Raise(msg) ==
    IF Guarded
    THEN /\ stream' = Append(stream, Fail(PipelineFailedText(msg)))
         /\ pc' = "failed"
         /\ escaped' = escaped
         /\ frame' = ParametersOf(frame)
         /\ tasks' = <<>>
         /\ completed' = <<>>
         /\ results' = <<>>
    ELSE /\ stream' = stream
         /\ pc' = "raised"
         /\ escaped' = msg
         /\ frame' = NoFrame
         /\ tasks' = <<>>
         /\ completed' = <<>>
         /\ results' = <<>>

\* The consumer asks for the next value of a run suspended at the yield of a
\* failure message: the return after the yield runs and the generator ends.
ReturnAfterFailure ==
    /\ pc = "failed"
    /\ pc' = "done"
    /\ frame' = NoFrame
    /\ UNCHANGED <<tasks, completed, results, stream, remote>>
    /\ RunFrame

\* Mutant: run_agents_step enters planning without a word.
YieldPlanning_Silent ==
    /\ pc = "trace"
    /\ pc' = "planning"
    /\ UNCHANGED <<frame, tasks, completed, results, remote, stream>>
    /\ RunFrame

\* run_agents_step yields the planning event.
YieldPlanning ==
    /\ pc = "trace"
    /\ stream' = Append(stream, PlanningEvent)
    /\ pc' = "planning"
    /\ UNCHANGED <<frame, tasks, completed, results, remote>>
    /\ RunFrame

\* plan_searches builds its prompt and awaits the planner agent.
CallPlanner ==
    /\ pc = "planning"
    /\ frame' = [frame EXCEPT
                   !.prompt = PlannerPrompt(frame.query, frame.questions, frame.answers)]
    /\ remote' = [remote EXCEPT !.planner = @ + 1]
    /\ pc' = "await_planner"
    /\ UNCHANGED <<tasks, completed, results, stream>>
    /\ RunFrame

\* The planner agent returns or raises; on a plan with searches the run yields
\* the starting event.
PlannerReturns ==
    /\ pc = "await_planner"
    /\ \E o \in PlannerOutcomes :
          IF o.fault
          THEN Raise(PlannerFailedText(FaultText))
          ELSE IF o.plan.searches = <<>>
          THEN Raise(PlannerFailedText(NoSearchesText))
          ELSE /\ frame' = [frame EXCEPT !.plan = o.plan]
               /\ stream' = Append(stream, StartingEvent(Len(o.plan.searches)))
               /\ pc' = "starting"
               /\ UNCHANGED <<tasks, completed, results, escaped>>
    /\ UNCHANGED remote
    /\ RunFrameRaising

\* perform_searches creates one task per search and suspends at the first
\* "await task" of its as_completed loop; no task has run yet.
StartSearches ==
    /\ pc = "starting"
    /\ tasks' = [i \in 1..Len(frame.plan.searches) |-> "running"]
    /\ completed' = <<>>
    /\ results' = <<>>
    /\ pc' = "searching"
    /\ UNCHANGED <<frame, stream, remote>>
    /\ RunFrame

\* Task i has run search_web up to its await of Runner.run(search_agent): the
\* event loop starts the tasks in the order of their creation.
Called(i) == i <= remote.searcher

\* The next search task starts: search_web builds its input and awaits the
\* search agent.
SearchCalls ==
    /\ pc = "searching"
    /\ remote.searcher < Len(tasks)
    /\ remote' = [remote EXCEPT !.searcher = @ + 1]
    /\ UNCHANGED <<pc, frame, tasks, completed, results, stream>>
    /\ RunFrame

\* Mutant: the loop appends whatever the task returned, None included.
Collect_KeepsNone(collected, result) == Append(collected, result.text)

\* The results list after the loop of perform_searches took one completed task.
Collect(collected, result) ==
    IF result.none THEN collected ELSE Append(collected, result.text)

\* What search_web returns for item i: the text, or None when the agent raised.
search_web(i, fault) ==
    IF fault THEN [none |-> TRUE, text |-> <<>>] ELSE [none |-> FALSE, text |-> SearchResult(i)]

\* Mutant: the loop of perform_searches ends with the first completed task.
AllCompleted_FirstOnly(ts) == \E i \in DOMAIN ts : ts[i] # "running"

\* All tasks of the plan have completed.
AllCompleted(ts) == \A i \in DOMAIN ts : ts[i] # "running"

\* One search task completes: its agent call returned or raised, search_web
\* returned the text or None, and as_completed holds the finished task for the loop.
SearchReturns ==
    /\ pc = "searching"
    /\ \E i \in DOMAIN tasks, fault \in BOOLEAN :
          /\ tasks[i] = "running"
          /\ Called(i)
          /\ tasks' = [tasks EXCEPT ![i] = IF fault THEN "failed" ELSE "done"]
          /\ completed' = Append(completed, search_web(i, fault))
    /\ UNCHANGED <<pc, frame, results, stream, remote>>
    /\ RunFrame

\* The results list after the loop of perform_searches took the completed tasks
\* rs, oldest first.
RECURSIVE CollectAll(_, _)
CollectAll(collected, rs) ==
    IF rs = <<>> THEN collected ELSE CollectAll(Collect(collected, Head(rs)), Tail(rs))

\* perform_searches resumes: its loop takes the finished tasks that as_completed
\* hands over, in the order of their completion, until it would have to wait;
\* after the last task of the plan it returns and the run yields the writing
\* event.  (It resumes two turns of the event loop after a task finished, so
\* every task has started by then; a task that finished in the meantime may or
\* may not be handed over in the same turn.)
TakeCompleted ==
    /\ pc = "searching"
    /\ remote.searcher = Len(tasks)
    /\ \E k \in 1..Len(completed) :
          /\ results' = CollectAll(results, SubSeq(completed, 1, k))
          /\ completed' = SubSeq(completed, k + 1, Len(completed))
          /\ IF AllCompleted(tasks) /\ k = Len(completed)
             THEN /\ stream' = Append(stream, WritingEvent)
                  /\ pc' = "writing"
             ELSE UNCHANGED <<stream, pc>>
    /\ UNCHANGED <<frame, tasks, remote>>
    /\ RunFrame

\* write_report builds its input and awaits the writer agent.
CallWriter ==
    /\ pc = "writing"
    /\ frame' = [frame EXCEPT !.writer_input = WriterInput(frame.query, results)]
    /\ remote' = [remote EXCEPT !.writer = @ + 1]
    /\ pc' = "await_writer"
    /\ UNCHANGED <<tasks, completed, results, stream>>
    /\ RunFrame

\* The writer agent returns or raises; on a complete report the run yields the
\* sending event or the skipped event.
WriterReturns ==
    /\ pc = "await_writer"
    /\ \E o \in WriterOutcomes :
          IF o.fault
          THEN Raise(WriterFailedText(FaultText))
          ELSE IF ~ReportComplete(o.report)
          THEN Raise(WriterFailedText(IncompleteReportText))
          ELSE /\ frame' = [frame EXCEPT !.report = o.report]
               /\ IF WantsEmail(frame.send_email, frame.recipient_email)
                  THEN /\ stream' = Append(stream, SendingEvent(frame.recipient_email))
                       /\ pc' = "sending"
                  ELSE /\ stream' = Append(stream, SkippedEvent)
                       /\ pc' = "skipped"
               /\ UNCHANGED <<tasks, completed, results, escaped>>
    /\ UNCHANGED remote
    /\ RunFrameRaising

\* send_report_email awaits the email agent.
CallEmail ==
    /\ pc = "sending"
    /\ remote' = [remote EXCEPT !.email = @ + 1]
    /\ pc' = "await_email"
    /\ UNCHANGED <<frame, tasks, completed, results, stream>>
    /\ RunFrame

\* Mutant: send_report_email calls the email agent again when the call raised.
EmailReturns_Retries ==
    /\ pc = "await_email"
    /\ \E fault \in BOOLEAN :
          IF fault
          THEN /\ pc' = "sending"
               /\ UNCHANGED <<frame, tasks, completed, results, stream>>
          ELSE /\ stream' = Append(stream, SentEvent(frame.recipient_email))
               /\ pc' = "sent"
               /\ UNCHANGED <<frame, tasks, completed, results>>
    /\ UNCHANGED remote
    /\ RunFrame

\* The email agent returns or raises; on success the run yields the sent event.
EmailReturns ==
    /\ pc = "await_email"
    /\ \E fault \in BOOLEAN :
          IF fault
          THEN Raise(EmailFailedText(FaultText))
          ELSE /\ stream' = Append(stream, SentEvent(frame.recipient_email))
               /\ pc' = "sent"
               /\ UNCHANGED <<frame, tasks, completed, results, escaped>>
    /\ UNCHANGED remote
    /\ RunFrameRaising

\* Mutant: the report's text is yielded as soon as the report exists, also
\* while the delivery is still to be made.
YieldReport_BeforeDelivery ==
    /\ pc \in {"skipped", "sending", "sent"}
    /\ stream' = Append(stream, frame.report.markdown_report)
    /\ pc' = "report"
    /\ UNCHANGED <<frame, tasks, completed, results, remote>>
    /\ RunFrame

\* run_agents_step yields the report's markdown text.
YieldReport ==
    /\ pc \in {"skipped", "sent"}
    /\ stream' = Append(stream, frame.report.markdown_report)
    /\ pc' = "report"
    /\ UNCHANGED <<frame, tasks, completed, results, remote>>
    /\ RunFrame

\* The generator is exhausted: the stream ends and the run's locals are gone.
Finish ==
    /\ pc = "report"
    /\ pc' = "done"
    /\ frame' = NoFrame
    /\ tasks' = <<>>
    /\ completed' = <<>>
    /\ results' = <<>>
    /\ UNCHANGED <<stream, remote>>
    /\ RunFrame

\* ------------------------------------------ generate_clarification_questions
PyList(xs) == [t |-> "list", v |-> xs]
NoReturn == [t |-> "none", v |-> <<>>]
NoCArgs == [query |-> <<>>, request |-> NoRequest]

\* generate_clarification_questions up to its await, given what check_limits
\* answers (r) if it is asked.
generate_clarification_questions(a, r) ==
    IF a.query = <<>> \/ strip(a.query) = <<>>
    THEN [checked |-> FALSE, ret |-> PyList(<<EmptyQueryText>>), pc |-> "returned"]
    ELSE IF ~r.ok
    THEN [checked |-> TRUE, ret |-> PyStr(r.msg), pc |-> "returned"]
    ELSE [checked |-> TRUE, ret |-> NoReturn, pc |-> "await_clarifier"]

\* What it returns once Runner.run(clarifier_agent, ...) is over.
ClarifierResult(o) ==
    IF o.fault THEN PyList(<<<<"Error generating questions. Please try again.">>>>)
    ELSE IF o.questions = <<>>
    THEN PyList(<<<<"Could not generate questions. Please try again.">>>>)
    ELSE PyList(o.questions)

\* A caller starts generate_clarification_questions; it runs to its await or returns.
StartClarify ==
    /\ cpc \in {"idle", "returned"}
    /\ runs + clarifies < MaxRequests
    /\ \E query \in Texts, request \in Requests, d \in AppElapsed :
          LET a == [query |-> query, request |-> request]
              u == get_user_id(request)
              now == clock + d
              r == check_limits(request_time[u], daily_counts[u], now,
                                requests_per_minute, daily_limit)
              o == generate_clarification_questions(a, r)
          IN  /\ cargs' = a
              /\ IF o.checked
                 THEN /\ Admit(u, r, now)
                      /\ cadmission' = CallRecord(u, r, request_time[u], daily_counts[u], now)
                 ELSE LimiterUnchanged /\ cadmission' = NoCall
              /\ cret' = o.ret
              /\ cpc' = o.pc
              /\ cremote' = IF o.pc = "await_clarifier" THEN 1 ELSE 0
    /\ clarifies' = clarifies + 1
    /\ UNCHANGED <<requests_per_minute, daily_limit, calls, runvars>>

\* The clarifier agent returns or raises and the function returns.
ClarifierReturns ==
    /\ cpc = "await_clarifier"
    /\ \E o \in ClarifierOutcomes : cret' = ClarifierResult(o)
    /\ cpc' = "returned"
    /\ UNCHANGED <<cargs, cremote, cadmission, clarifies, rlvars, runvars>>

\* ------------------------------------------------------------ specification
InitRun ==
    /\ pc = "idle"
    /\ args = NoArgs
    /\ frame = NoFrame
    /\ tasks = <<>>
    /\ completed = <<>>
    /\ results = <<>>
    /\ stream = <<>>
    /\ remote = NoRemote
    /\ admission = NoCall
    /\ runs = 0
    /\ entry = ""
    /\ escaped = <<>>
    /\ abandoned = <<>>

InitClarify ==
    /\ cpc = "idle"
    /\ cargs = NoCArgs
    /\ cret = NoReturn
    /\ cremote = 0
    /\ cadmission = NoCall
    /\ clarifies = 0

\* The application: the global rate_limiter, no request under way.
Init ==
    /\ requests_per_minute = GlobalRequestsPerMinute
    /\ daily_limit = GlobalDailyLimit
    /\ clock = AppStart
    /\ InitLimiterState
    /\ InitRun
    /\ InitClarify

\* The steps of run_deep_research_pipeline.
Next ==
    \/ StartPipeline
    \/ YieldPlanning
    \/ CallPlanner
    \/ PlannerReturns
    \/ StartSearches
    \/ SearchCalls
    \/ SearchReturns
    \/ TakeCompleted
    \/ CallWriter
    \/ WriterReturns
    \/ CallEmail
    \/ EmailReturns
    \/ YieldReport
    \/ Finish
    \/ ReturnAfterFailure

\* Research requests, one at a time, against the global rate limiter.
Spec == Init /\ [][Next]_vars

\* The steps of generate_clarification_questions.
NextClarify == StartClarify \/ ClarifierReturns

\* The application: research requests and clarification requests, interleaved.
SpecApp == Init /\ [][Next \/ NextClarify]_vars

\* A step of a run that has started: the consumer asks for the next value, or
\* an awaited agent call returns or raises.
RunStep ==
    \/ YieldPlanning
    \/ CallPlanner
    \/ PlannerReturns
    \/ StartSearches
    \/ SearchCalls
    \/ SearchReturns
    \/ TakeCompleted
    \/ CallWriter
    \/ WriterReturns
    \/ CallEmail
    \/ EmailReturns
    \/ YieldReport
    \/ Finish
    \/ ReturnAfterFailure

\* Research requests whose stream is consumed to its end and whose agent calls
\* all return or raise.
SpecLive == Spec /\ WF_vars(RunStep)

\* The generators of ResearchManager (run_pipeline, execute_pipeline_research,
\* run_agents_step) called directly and through run_deep_research_pipeline, one
\* run at a time.
NextRM ==
    \/ StartRunPipeline
    \/ StartExecutePipelineResearch
    \/ StartRunAgentsStep
    \/ StartPipeline
    \/ RunStep
SpecRM == Init /\ [][NextRM]_vars

\* The positions at which the run awaits an agent (or the search tasks), and
\* those at which it is suspended at a yield.
Awaiting == {"await_planner", "searching", "await_writer", "await_email"}
Yielding ==
    {"trace", "planning", "starting", "writing", "sending", "skipped", "sent", "report",
     "failed"}

\* The async generators of the current run that are alive, outermost first:
\* from the one the caller called down to the one suspended at the yield.
\* run_deep_research_pipeline calls run_pipeline only after an admitted check;
\* execute_pipeline_research creates run_agents_step after its trace line.
GeneratorChain ==
    <<"run_deep_research_pipeline", "run_pipeline", "execute_pipeline_research",
      "run_agents_step">>
Generators ==
    LET first == CHOOSE i \in 1..Len(GeneratorChain) : GeneratorChain[i] = entry
        last == CASE pc = "failed" ->
                        IF entry = "run_deep_research_pipeline" /\ ~admission.ok THEN 1 ELSE 2
                  [] pc = "trace" -> 3
                  [] OTHER -> 4
    IN  SubSeq(GeneratorChain, first, last)

\* The generators named in the sequence a.
Among(a) == {a[i] : i \in 1..Len(a)}

\* What the generators a still hold of the frame f: run_agents_step the
\* parameters and the locals of the stages, execute_pipeline_research the
\* parameters and the trace (open while it lives), run_pipeline the parameters.
Held(a, f) ==
    IF a = <<>> THEN NoFrame
    ELSE IF "run_agents_step" \in Among(a)
    THEN [f EXCEPT !.trace_id = IF "execute_pipeline_research" \in Among(a) THEN @ ELSE ""]
    ELSE IF "execute_pipeline_research" \in Among(a) THEN f
    ELSE ParametersOf(f)

\* What a closed or cancelled run leaves on the event loop: the generators not
\* yet finalized with what they hold, the search results run_agents_step holds,
\* the search tasks and how many of them have started.
Leftover(a, f, rs, ts, n) ==
    [alive |-> a, frame |-> Held(a, f),
     results |-> IF "run_agents_step" \in Among(a) THEN rs ELSE <<>>,
     tasks |-> ts, started |-> n]

\* Something of the leftover l is still on the loop: a generator to finalize or
\* a search task that has not completed.
Pending(l) == l.alive # <<>> \/ \E i \in DOMAIN l.tasks : l.tasks[i] = "running"

\* The sequence s without its i-th element.
Without(s, i) == SubSeq(s, 1, i - 1) \o SubSeq(s, i + 1, Len(s))

\* The leftover l of the run that ends now joins the others, if anything of it
\* is pending.
Abandon(l) ==
    IF Pending(l)
    THEN Len(abandoned) < MaxAbandoned /\ abandoned' = Append(abandoned, l)
    ELSE abandoned' = abandoned

\* The leftover at place i becomes l, and is forgotten once nothing of it is pending.
Settle(i, l) ==
    abandoned' = IF Pending(l) THEN [abandoned EXCEPT ![i] = l] ELSE Without(abandoned, i)

\* The run is cancelled while it awaits: the task consuming the stream is
\* cancelled and CancelledError is raised at the await.  It is no Exception, so
\* no handler of run_pipeline or of run_deep_research_pipeline catches it: it
\* passes through every generator of the run at once, the run ends without a
\* message and its locals are gone.  The tasks perform_searches created belong
\* to the event loop, nothing cancels them, and those still running stay so.
Cancel ==
    /\ pc \in Awaiting
    /\ pc' = "cancelled"
    /\ frame' = NoFrame
    /\ tasks' = <<>>
    /\ completed' = <<>>
    /\ results' = <<>>
    /\ Abandon(Leftover(<<>>, NoFrame, <<>>, IF pc = "searching" THEN tasks ELSE <<>>,
                        remote.searcher))
    /\ UNCHANGED <<rlvars, args, admission, runs, entry, escaped, clarvars>>
    /\ UNCHANGED <<stream, remote>>

\* The caller closes the generator (aclose) while it is suspended at a yield:
\* GeneratorExit is raised there and the generator the caller holds ends, without
\* a message.  The generators below it are not closed with it: each is
\* finalized by the event loop, later, once the one above it is gone.
Close ==
    /\ pc \in Yielding
    /\ pc' = "cancelled"
    /\ frame' = NoFrame
    /\ tasks' = <<>>
    /\ completed' = <<>>
    /\ results' = <<>>
    /\ Abandon(Leftover(Tail(Generators), frame, results, <<>>, 0))
    /\ UNCHANGED <<rlvars, args, admission, runs, entry, escaped, clarvars>>
    /\ UNCHANGED <<stream, remote>>

\* What the steps of the event loop on a leftover leave alone.
LoopFrame ==
    /\ UNCHANGED <<pc, args, frame, tasks, completed, results, stream, remote, admission,
                   runs, entry, escaped>>
    /\ UNCHANGED <<rlvars, clarvars>>

\* The event loop finalizes the outermost generator a closed run left: it is
\* closed at its yield (execute_pipeline_research leaves its trace block) and
\* what it alone held is gone.
FinalizeGenerator ==
    /\ \E i \in DOMAIN abandoned :
          LET l == abandoned[i]
              a == Tail(l.alive)
          IN  /\ l.alive # <<>>
              /\ Settle(i, Leftover(a, l.frame, l.results, l.tasks, l.started))
    /\ LoopFrame

\* A search task of a cancelled run that had not started yet starts: it calls
\* the search agent for a run that is gone.
OrphanSearchCalls ==
    /\ \E i \in DOMAIN abandoned :
          LET l == abandoned[i]
          IN  /\ l.started < Len(l.tasks)
              /\ Settle(i, [l EXCEPT !.started = @ + 1])
    /\ LoopFrame

\* A search task of a cancelled run completes: its agent call returns or raises
\* and search_web returns, to nobody.
OrphanSearchReturns ==
    /\ \E i \in DOMAIN abandoned :
          LET l == abandoned[i]
          IN  \E j \in DOMAIN l.tasks, fault \in BOOLEAN :
                 /\ l.tasks[j] = "running"
                 /\ j <= l.started
                 /\ Settle(i, [l EXCEPT !.tasks[j] = IF fault THEN "failed" ELSE "done"])
    /\ LoopFrame

\* Research requests that may be cancelled or closed.
NextCancel ==
    \/ Next
    \/ Cancel
    \/ Close
    \/ FinalizeGenerator
    \/ OrphanSearchCalls
    \/ OrphanSearchReturns
SpecCancel == Init /\ [][NextCancel]_vars

InitRL ==
    /\ requests_per_minute \in RpmChoices
    /\ daily_limit \in DailyChoices
    /\ clock \in StartTimes
    /\ InitLimiterState
    /\ InitRun
    /\ InitClarify

NextRL == CheckLimits

\* The rate limiter alone under check_limits calls, for every configuration of
\* RpmChoices x DailyChoices.
SpecRL == InitRL /\ [][NextRL]_vars

\* The rate limiter the application constructs, RateLimiter(2, 2), under calls
\* of both its public methods.
InitRLCleanup ==
    /\ requests_per_minute = GlobalRequestsPerMinute
    /\ daily_limit = GlobalDailyLimit
    /\ clock = 0
    /\ InitLimiterState
    /\ InitRun
    /\ InitClarify

NextRLCleanup == CheckLimits \/ CleanupOldRequests

SpecRLCleanup == InitRLCleanup /\ [][NextRLCleanup]_vars

\* ------------------------------------------------- rate limiter: the claims
\* The check_limits calls made for user u, oldest first.
UserCalls(u) == SelectSeq(calls, LAMBDA c : c.user = u /\ c.op = "check_limits")

\* The timestamps of ts that are younger than 60 seconds at time now.
Recent(ts, now) == SelectSeq(ts, LAMBDA t : now - t < WindowSeconds)

\* The number of calls among the first n of cs that returned Allowed on calendar day d.
AllowedOnDay(cs, n, d) ==
    Cardinality({j \in 1..n : cs[j].ok /\ get_today(cs[j].at) = d})

\* C1: from a fresh state, when requestsPerMinute + 1 checks for one identifier
\* fall within one second (and dailyLimit >= requestsPerMinute), the first
\* requestsPerMinute are Allowed, the next one is Denied with the per-minute
\* reason, and the denied check leaves the daily counter as it was.
C1_BurstDeniedPerMinute ==
    \A u \in UserIds :
        LET cs == UserCalls(u)
            n == requests_per_minute
        IN  (/\ daily_limit >= n
             /\ Len(cs) >= n + 1
             /\ cs[n + 1].at - cs[1].at <= 1)
            => /\ \A i \in 1..n : cs[i].ok /\ cs[i].msg = OkReason
               /\ ~cs[n + 1].ok
               /\ cs[n + 1].msg = MinuteReason(n)
               /\ cs[n + 1].data_after.count = cs[n + 1].data_before.count
               /\ cs[n + 1].data_after.count = cs[n].data_after.count

\* C1 witness: a burst of three checks in one second under a limit of 2 per minute.
C1_Witness ==
    \E u \in UserIds :
        LET cs == UserCalls(u)
        IN  /\ requests_per_minute = 2
            /\ daily_limit >= 2
            /\ Len(cs) >= 3
            /\ cs[3].at - cs[1].at <= 1
            /\ ~cs[3].ok

\* C2 as stated: once dailyLimit checks were Allowed on one calendar day, the
\* next check of that identifier on that day is Denied with the daily-limit
\* reason, whatever the one-minute window holds.
C2_Original ==
    \A u \in UserIds :
        LET cs == UserCalls(u)
        IN  \A i \in 1..Len(cs) :
                AllowedOnDay(cs, i - 1, get_today(cs[i].at)) >= daily_limit
                => ~cs[i].ok /\ cs[i].msg = DailyReason(daily_limit)

\* C2 amended: once dailyLimit checks were Allowed on one calendar day, the next
\* check of that identifier on that day is Denied; its reason is the daily-limit
\* reason when the window holds fewer than requestsPerMinute timestamps younger
\* than 60 seconds, and the per-minute reason when the window is full.
C2_DailyDenied ==
    \A u \in UserIds :
        LET cs == UserCalls(u)
        IN  \A i \in 1..Len(cs) :
                AllowedOnDay(cs, i - 1, get_today(cs[i].at)) >= daily_limit
                => /\ ~cs[i].ok
                   /\ cs[i].msg =
                        IF Len(Recent(cs[i].times_before, cs[i].at)) >= requests_per_minute
                        THEN MinuteReason(requests_per_minute)
                        ELSE DailyReason(daily_limit)

\* C2 witness: a check denied for the daily limit while the window is partly full.
C2_Witness ==
    \E u \in UserIds :
        LET cs == UserCalls(u)
        IN  \E i \in 1..Len(cs) :
                /\ AllowedOnDay(cs, i - 1, get_today(cs[i].at)) >= daily_limit
                /\ cs[i].msg = DailyReason(daily_limit)
                /\ Len(Recent(cs[i].times_before, cs[i].at)) = 1
                /\ requests_per_minute = 2

\* Call i of cs is the first call on a calendar day later than a day d on which
\* limit calls were Allowed, and no stored timestamp is younger than 60 seconds.
FirstAfterExhaustedDay(cs, i, limit) ==
    /\ Recent(cs[i].times_before, cs[i].at) = <<>>
    /\ \E j \in 1..(i - 1) :
          LET d == get_today(cs[j].at)
          IN  /\ d < get_today(cs[i].at)
              /\ AllowedOnDay(cs, i - 1, d) >= limit
              /\ \A k \in 1..(i - 1) : get_today(cs[k].at) <= d

\* C3: after the daily quota of an identifier was exhausted on day D, its first
\* check on a later calendar day with no timestamp younger than 60 seconds in
\* the window is Allowed and leaves the stored date at the new day and the
\* daily counter at exactly 1.
C3_NextDayAllowed ==
    \A u \in UserIds :
        LET cs == UserCalls(u)
        IN  \A i \in 1..Len(cs) :
                FirstAfterExhaustedDay(cs, i, daily_limit)
                => /\ cs[i].ok
                   /\ cs[i].data_after.date = get_today(cs[i].at)
                   /\ cs[i].data_after.count = 1

\* C3 witness: such a first check of a new day was made, after a denial on day D.
C3_Witness ==
    \E u \in UserIds :
        LET cs == UserCalls(u)
        IN  \E i \in 1..Len(cs) :
                /\ FirstAfterExhaustedDay(cs, i, daily_limit)
                /\ cs[i].data_before.count = daily_limit
                /\ cs[i].ok

\* C4: a Denied check appends no timestamp and leaves the daily entry as it
\* was; an Allowed check appends exactly one timestamp (the current time, after
\* the timestamps that are still younger than 60 seconds) and raises the
\* day's counter by exactly one.
C4_DeniedConsumesNothing ==
    \A i \in 1..Len(calls) :
        LET c == calls[i]
            kept == Recent(c.times_before, c.at)
            today == get_today(c.at)
            before == IF c.data_before.date = today THEN c.data_before.count ELSE 0
        IN  /\ ~c.ok => /\ c.times_after = kept
                        /\ c.data_after = c.data_before
            /\ c.ok => /\ c.times_after = Append(kept, c.at)
                       /\ c.data_after = [date |-> today, count |-> before + 1]

\* C4 witness: both kinds of denial and an admission have happened.
C4_Witness ==
    /\ \E i \in 1..Len(calls) : calls[i].msg = MinuteReason(requests_per_minute)
    /\ \E i \in 1..Len(calls) : calls[i].msg = DailyReason(daily_limit)
    /\ \E i \in 1..Len(calls) : calls[i].ok /\ calls[i].times_before # <<>>

\* ------------------------------------------------------ the run: the claims
IsFailure(e) == e # <<>> /\ e[1] = FailureMark

\* The stream holds the value e.
Yielded(e) == \E i \in 1..Len(stream) : stream[i] = e

\* The number of failure messages on the stream.
FailureCount == Cardinality({i \in 1..Len(stream) : IsFailure(stream[i])})

\* The markdown texts of the reports the writer agent can return.
Bodies == {o.report.markdown_report : o \in WriterOutcomes} \ {<<>>}

\* A report's markdown text is on the stream.
BodyYielded == \E i \in 1..Len(stream) : stream[i] \in Bodies

\* The positions of a run after write_report returned its report.
AfterWriting == {"skipped", "sending", "await_email", "sent", "report"}

\* The search tasks in state s.
TasksIn(s) == {i \in DOMAIN tasks : tasks[i] = s}

\* The finished tasks the loop of perform_searches has yet to take: those that
\* returned a text, and those that returned None.
WaitingTexts == {j \in 1..Len(completed) : ~completed[j].none}
WaitingNones == {j \in 1..Len(completed) : completed[j].none}

\* C5: for a plan of N >= 1 searches of which k fault, in any completion order,
\* perform_searches collects exactly one result per successful search and none
\* for a failed one, without duplicates: every successful task's text is in the
\* results or waits to be taken, a failed task's None is dropped, no failure is
\* yielded while the tasks run, and once all N tasks are over and taken the run
\* has gone on to the writing stage with N - k results, also when k = N.
C5_SearchesTolerateFaults ==
    tasks # <<>> =>
        /\ Len(tasks) = Len(frame.plan.searches)
        /\ Len(results) + Cardinality(WaitingTexts) = Cardinality(TasksIn("done"))
        /\ Cardinality(WaitingNones) <= Cardinality(TasksIn("failed"))
        /\ \A i \in DOMAIN tasks :
              tasks[i] = "done" <=>
                 \/ \E j \in 1..Len(results) : results[j] = SearchResult(i)
                 \/ \E j \in WaitingTexts : completed[j].text = SearchResult(i)
        /\ \A j1, j2 \in 1..Len(results) : results[j1] = results[j2] => j1 = j2
        /\ pc = "searching" =>
              /\ FailureCount = 0
              /\ ~Yielded(WritingEvent)
              /\ ~AllCompleted(tasks) \/ completed # <<>>
        /\ pc # "searching" =>
              /\ AllCompleted(tasks)
              /\ completed = <<>>
              /\ Len(results) = Len(tasks) - Cardinality(TasksIn("failed"))
              /\ pc \in {"writing", "await_writer"} \cup AfterWriting
              /\ Yielded(WritingEvent)
              /\ FailureCount = 0
              /\ pc # "writing" => /\ remote.writer = 1
                                   /\ frame.writer_input = WriterInput(frame.query, results)

\* C5 as stated, for every plan size N >= 0: the above, and a plan of no
\* searches does not abort the run either.
C5_Original ==
    /\ C5_SearchesTolerateFaults
    /\ ~Yielded(Fail(PipelineFailedText(PlannerFailedText(NoSearchesText))))

\* C5 witness: every search of a plan of two failed and the writer agent is being
\* called with no results.
C5_Witness ==
    /\ pc = "await_writer"
    /\ Len(tasks) = 2
    /\ TasksIn("failed") = {1, 2}
    /\ results = <<>>

\* The caller asked for delivery and gave a recipient.
DeliveryRequested == args.send_email /\ args.recipient_email # <<>>

\* C6: the run enters Delivering (the sending event and the call of the email
\* agent) if and only if the caller requested delivery and gave a non-empty
\* recipient; every other run whose report was written yields the skipped
\* event and then the report, with no call of the email agent and no failure.
C6_DeliveryOnlyWhenRequested ==
    /\ (pc \in {"sending", "await_email", "sent"} \/ remote.email > 0
            \/ \E i \in 1..Len(stream) : stream[i][1] = "Sending report to ")
          => DeliveryRequested
    /\ pc \in AfterWriting =>
          IF DeliveryRequested
          THEN /\ \E i \in 1..Len(stream) : stream[i][1] = "Sending report to "
               /\ ~Yielded(SkippedEvent)
               /\ pc \in {"sent", "report"} => remote.email = 1
          ELSE /\ Yielded(SkippedEvent)
               /\ pc \in {"skipped", "report"}
               /\ remote.email = 0
               /\ FailureCount = 0
    /\ (pc = "done" /\ Yielded(SkippedEvent)) =>
          /\ ~DeliveryRequested
          /\ remote.email = 0
          /\ FailureCount = 0
          /\ Len(stream) = 6
          /\ stream[5] = SkippedEvent
          /\ stream[6] \in Bodies

\* C6 witness: a run without delivery ended with the skipped event and the report.
C6_Witness ==
    /\ pc = "done"
    /\ ~args.send_email
    /\ Yielded(SkippedEvent)
    /\ stream[Len(stream)] \in Bodies

\* The question/answer pairs of the arguments that are non-empty after trimming.
RECURSIVE SurvivingPairs(_, _)
SurvivingPairs(qs, as) ==
    IF qs = <<>> \/ as = <<>> THEN <<>>
    ELSE IF strip(Head(qs)) # <<>> /\ strip(Head(as)) # <<>>
         THEN <<<<strip(Head(qs)), strip(Head(as))>>>> \o SurvivingPairs(Tail(qs), Tail(as))
         ELSE SurvivingPairs(Tail(qs), Tail(as))

\* Some question/answer pair of the arguments is empty after trimming.
HasEmptyPair == Len(SurvivingPairs(args.questions, args.answers)) < Len(args.questions)

\* C7 as stated: in an admitted run with a non-empty query (and no delivery
\* asked for), a question/answer pair that is empty after trimming is dropped:
\* the run does not fail because of it, its first value is the trace event, and
\* the planner prompt is built from the surviving pairs only.
C7_Original ==
    (/\ pc # "idle"
     /\ strip(args.query) # <<>>
     /\ ~args.send_email /\ args.recipient_email = <<>>
     /\ admission.ok
     /\ HasEmptyPair)
    => /\ ~IsFailure(stream[1])
       /\ frame.prompt # <<>> =>
             LET sp == SurvivingPairs(args.questions, args.answers)
             IN  frame.prompt = PlannerPrompt(args.query,
                                              [i \in 1..Len(sp) |-> sp[i][1]],
                                              [i \in 1..Len(sp) |-> sp[i][2]])

\* The check_limits call c left the quota as it was: no new timestamp among
\* those younger than 60 seconds, and the same daily count.
QuotaUntouched(c) ==
    /\ Recent(c.times_after, c.at) = Recent(c.times_before, c.at)
    /\ c.data_after.count = c.data_before.count

\* The positions of a run that has yielded its last value: suspended at the
\* yield of a failure message, or returned.
Stopped == {"failed", "done"}

\* The run ended at its first value with a validation error or an admission denial.
RejectedAtEntry == pc \in Stopped /\ Len(stream) = 1 /\ IsFailure(stream[1])

\* The clarification call returned the guidance message or an admission denial.
ClarifyRejected ==
    /\ cpc = "returned"
    /\ \/ cret = PyList(<<EmptyQueryText>>)
       \/ cret.t = "str"

\* C8 as stated: a validation failure or an admission denial of
\* run_deep_research_pipeline or generate_clarification_questions is reported
\* before any quota is consumed and before any remote agent call: the caller's
\* window and daily counter are as before the call and no agent was called.
C8_Original ==
    /\ RejectedAtEntry => QuotaUntouched(admission) /\ remote = NoRemote
    /\ ClarifyRejected => QuotaUntouched(cadmission) /\ cremote = 0

\* The stage a failure message names.
FailedStage(e) == IF Len(e) >= 3 /\ e[2] = "Research pipeline failed: " THEN e[3] ELSE ""

\* C9: a stage failure at Planning (fault or empty plan), Writing (fault or a
\* report with an empty summary or body) or Delivering (fault) aborts the run:
\* no agent of a later stage is called, the report text is never yielded, and
\* the stream ends with a single failure message that names the failed stage;
\* a run never goes on with an empty plan or an incomplete report.
C9_StageFailureAborts ==
    /\ pc \in {"starting", "searching", "writing", "await_writer"} \cup AfterWriting
          => frame.plan.searches # <<>>
    /\ pc \in AfterWriting
          => frame.report.short_summary # <<>> /\ frame.report.markdown_report # <<>>
    /\ \A i \in 1..Len(stream) :
          FailedStage(stream[i]) # "" =>
             /\ pc \in Stopped
             /\ tasks = <<>> /\ frame = ParametersOf(frame)
             /\ i = Len(stream)
             /\ FailureCount = 1
             /\ ~BodyYielded
             /\ FailedStage(stream[i]) \in
                   {"Search Planner failed: ", "Report Writing failed: ", "Email sending failed: "}
             /\ FailedStage(stream[i]) = "Search Planner failed: "
                   => remote = [planner |-> 1, searcher |-> 0, writer |-> 0, email |-> 0]
             /\ FailedStage(stream[i]) = "Report Writing failed: "
                   => remote.planner = 1 /\ remote.writer = 1 /\ remote.email = 0
             /\ FailedStage(stream[i]) = "Email sending failed: "
                   => remote.planner = 1 /\ remote.writer = 1 /\ remote.email = 1
    /\ (pc \in Stopped /\ remote.planner = 1 /\ remote.searcher = 0)
          => FailedStage(stream[Len(stream)]) = "Search Planner failed: "
    /\ (pc \in Stopped /\ remote.writer = 1 /\ ~BodyYielded /\ remote.email = 0)
          => FailedStage(stream[Len(stream)]) = "Report Writing failed: "
    /\ (pc \in Stopped /\ remote.email = 1 /\ ~BodyYielded)
          => FailedStage(stream[Len(stream)]) = "Email sending failed: "

\* C9 witness: the writer agent returned an incomplete report and the run is
\* suspended at the writing failure it yielded.
C9_Witness ==
    /\ pc = "failed"
    /\ stream[Len(stream)] = Fail(PipelineFailedText(WriterFailedText(IncompleteReportText)))
    /\ remote.writer = 1

\* The stream of a run that has yielded its last value: it ends with the report text or with one
\* failure message, and holds neither anywhere else.
TerminalStream ==
    /\ stream # <<>>
    /\ IsFailure(stream[Len(stream)]) \/ stream[Len(stream)] \in Bodies
    /\ \A i \in 1..(Len(stream) - 1) : ~IsFailure(stream[i]) /\ stream[i] \notin Bodies

\* C10: every run yields a finite stream that ends with the report's markdown
\* text or with one failure message, never both and never two failures, and,
\* no exception leaves the generator, and, when the stream is consumed and
\* every agent call returns or raises, the stream ends.
C10_EveryRunEnds ==
    /\ [](pc \in Stopped => TerminalStream)
    /\ [](pc # "raised" /\ escaped = <<>>)
    /\ [](FailureCount <= 1 /\ ~(FailureCount = 1 /\ BodyYielded))
    /\ [](Len(stream) <= 7)
    /\ \A n \in 1..MaxRequests : (runs = n /\ pc # "done") ~> (runs = n /\ pc = "done")

\* C10 witness: a run with delivery ended with the report text.
C10_Witness ==
    /\ pc = "done"
    /\ Len(stream) = 7
    /\ stream[7] \in Bodies
    /\ remote.email = 1

\* A hard validation failure of the run's arguments.
QueryEmpty == strip(args.query) = <<>>
CountMismatch == Len(args.questions) # Len(args.answers)
RecipientMissing == args.send_email /\ args.recipient_email = <<>>

\* C11: a run whose query is empty after trimming, whose numbers of questions
\* and answers differ, or that asks for delivery without a recipient ends before
\* Planning: its stream is exactly one failure message, which names the two
\* counts when they differ (and the query is not empty), and no planner,
\* searcher, writer or email agent is called.  (The run is one that passes
\* through run_pipeline, where the validation is.)
C11_HardValidationFailure ==
    (Guarded /\ (QueryEmpty \/ CountMismatch \/ RecipientMissing)) =>
        /\ pc \in Stopped
        /\ Len(stream) = 1
        /\ IsFailure(stream[1])
        /\ remote = NoRemote
        /\ frame = ParametersOf(frame) /\ tasks = <<>>
        /\ pc = "done" => frame = NoFrame
        /\ (CountMismatch /\ ~QueryEmpty) =>
              stream[1] = Fail(ValidationFailedText(
                              <<"Mismatch: ", IntToStr(Len(args.questions)), " questions but ",
                                IntToStr(Len(args.answers)), " answers">>))

\* C11 witness: run_pipeline was called with two questions and three answers
\* and ended with the message that names the mismatch.
C11_Witness ==
    /\ pc = "done"
    /\ entry = "run_pipeline"
    /\ Len(args.questions) = 2 /\ Len(args.answers) = 3
    /\ stream = <<Fail(ValidationFailedText(
                         <<"Mismatch: ", "2", " questions but ", "3", " answers">>))>>
    /\ remote = NoRemote

\* The agent calls made so far in a run that is at position p with a plan of n searches.
CallsMade(p, n, e) ==
    CASE p \in {"trace", "planning"} -> NoRemote
      [] p \in {"await_planner", "starting"} ->
            [planner |-> 1, searcher |-> 0, writer |-> 0, email |-> 0]
      [] p = "writing" ->
            [planner |-> 1, searcher |-> n, writer |-> 0, email |-> 0]
      [] p \in {"await_writer", "skipped", "sending"} ->
            [planner |-> 1, searcher |-> n, writer |-> 1, email |-> 0]
      [] p \in {"await_email", "sent"} ->
            [planner |-> 1, searcher |-> n, writer |-> 1, email |-> 1]
      [] p = "report" ->
            [planner |-> 1, searcher |-> n, writer |-> 1, email |-> e]

\* C12: the stages of a run occur in the order Validating, Planning, Searching,
\* Writing, Delivering or SkippingDelivery, Done, none skipped or repeated: at
\* every position the agents called so far are exactly those of the stages
\* before it, each once (in Searching, the search agent once for each task that
\* has started); searches start only after the planner returned a plan,
\* the writer is called only when every search is over, the email agent only
\* after the writer returned a complete report, and the report's text is
\* yielded last, right after the sent event or the skipped event.
C12_StagesInOrder ==
    /\ pc \notin {"idle", "searching"} \cup Stopped =>
          remote = CallsMade(pc, Len(frame.plan.searches),
                             IF Yielded(SkippedEvent) THEN 0 ELSE 1)
    /\ pc = "searching" =>
          /\ remote = [planner |-> 1, searcher |-> remote.searcher, writer |-> 0, email |-> 0]
          /\ remote.searcher <= Len(frame.plan.searches)
          /\ \A i \in DOMAIN tasks : tasks[i] # "running" => Called(i)
          /\ results # <<>> => remote.searcher = Len(tasks)
          /\ Len(stream) = 3
          /\ stream[3] = StartingEvent(Len(frame.plan.searches))
    /\ remote.searcher > 0 =>
          /\ remote.planner = 1
          /\ Len(stream) >= 3
          /\ pc # "searching" => stream[3] = StartingEvent(remote.searcher)
    /\ remote.writer > 0 =>
          /\ remote.searcher > 0
          /\ TasksIn("running") = {}
          /\ Len(stream) >= 4 /\ stream[4] = WritingEvent
    /\ remote.email > 0 =>
          /\ remote.writer = 1
          /\ Len(stream) >= 5 /\ stream[5][1] = "Sending report to "
          /\ pc \notin Stopped => ReportComplete(frame.report)
    /\ \A i \in 1..Len(stream) :
          stream[i] \in Bodies =>
             /\ i = Len(stream)
             /\ pc \in {"report", "done"}
             /\ i > 1
             /\ \/ stream[i - 1] = SkippedEvent /\ remote.email = 0
                \/ stream[i - 1][1] = "Report sent to " /\ remote.email = 1
             /\ remote.planner = 1 /\ remote.writer = 1 /\ remote.searcher > 0

\* C12 witness: a run with delivery has yielded its report after one planner
\* call, two searches, one writer call and one email call.
C12_Witness ==
    /\ pc = "report"
    /\ remote = [planner |-> 1, searcher |-> 2, writer |-> 1, email |-> 1]
    /\ stream[Len(stream)] \in Bodies

\* The value e is a trace line.
IsTrace(e) == e # <<>> /\ e[1] = "Trace: https://platform.openai.com/traces/trace?trace_id="

\* The number of trace lines on the stream.
TraceCount == Cardinality({i \in 1..Len(stream) : IsTrace(stream[i])})

\* C13 as stated: every run generates one trace identifier and yields it as
\* the very first value of its stream.
C13_Original ==
    pc # "idle" => IsTrace(stream[1]) /\ TraceCount = 1

\* C13: a run that passes validation and admission generates its trace
\* identifier once and yields it as the very first value, before every progress
\* event and every stage failure message; a run rejected at validation or
\* admission yields its failure message only, and no trace identifier.
C13_TraceFirstWhenAccepted ==
    pc # "idle" =>
        /\ TraceCount <= 1
        /\ TraceCount = 1 =>
              /\ stream[1] = <<"Trace: https://platform.openai.com/traces/trace?trace_id=",
                               gen_trace_id(runs)>>
              /\ pc \notin Stopped => frame.trace_id = gen_trace_id(runs)
        /\ TraceCount = 0 <=> RejectedAtEntry
        /\ RejectedAtEntry <=>
              \/ ~admission.ok
              \/ ~validate_input(args.query, StripAll(args.questions), StripAll(args.answers)).ok
              \/ (~args.send_email /\ args.recipient_email # <<>>)

\* C13 witness: a run yielded its trace line first and ended with a stage failure.
C13_Witness ==
    /\ pc = "done"
    /\ Len(stream) = 3
    /\ IsTrace(stream[1])
    /\ IsFailure(stream[3])

\* C14 as stated: generate_clarification_questions always returns a list of
\* strings: the guidance message, without a call of the clarifier agent, for a
\* query that is empty after trimming, and otherwise the agent's questions or
\* one of the two retry messages; it calls the clarifier agent at most once.
C14_Original ==
    /\ cremote <= 1
    /\ cpc = "returned" =>
          /\ cret.t = "list"
          /\ cret.v # <<>>
          /\ strip(cargs.query) = <<>> => cret = PyList(<<EmptyQueryText>>) /\ cremote = 0
          /\ cremote = 0 => cret = PyList(<<EmptyQueryText>>)

\* The timestamps of ts that lie in the 60 seconds starting at t.
WithinWindowFrom(ts, t) == {j \in 1..Len(ts) : ts[j] - t >= 0 /\ ts[j] - t < WindowSeconds}

\* C15: with clarification requests and research requests in flight at the same
\* time, every check_limits call tests and updates the caller's window and
\* daily record in one step: no 60 seconds hold more than requests_per_minute
\* admitted checks of one identifier, no day more than daily_limit, and two
\* admitted requests of one identifier never took the same slot (each saw the
\* other's update or was seen by it).
C15_AdmissionAtomic ==
    /\ \A u \in UserIds :
          /\ daily_counts[u].count <= daily_limit
          /\ \A i \in 1..Len(request_time[u]) :
                Cardinality(WithinWindowFrom(request_time[u], request_time[u][i]))
                    <= requests_per_minute
    /\ \A c \in {admission, cadmission} :
          c.ok => /\ Len(Recent(c.times_after, c.at)) <= requests_per_minute
                  /\ c.data_after.count <= daily_limit
                  /\ c.times_after = Append(Recent(c.times_before, c.at), c.at)
    /\ (admission.ok /\ cadmission.ok /\ admission.user = cadmission.user) =>
          /\ admission.times_after # cadmission.times_after
          /\ admission.data_after.date = cadmission.data_after.date
                => admission.data_after.count # cadmission.data_after.count

\* C15 witness: while an admitted research request awaits its planner, a
\* clarification request of the same identifier in the same second is denied
\* for the per-minute limit.
C15_Witness ==
    /\ pc = "await_planner"
    /\ admission.ok
    /\ cpc = "returned"
    /\ ~cadmission.ok
    /\ cadmission.msg = MinuteReason(requests_per_minute)
    /\ cadmission.user = admission.user
    /\ cadmission.at = admission.at

\* C16: perform_searches starts one task per search of the plan, each with one
\* call of the search agent, and returns only when every task has returned its
\* result or failed and the loop has taken it: while a task is running or a
\* finished one waits to be taken the run stays in Searching, and from the
\* moment the writer agent is called on, no search task of the run is running,
\* whatever the order in which the tasks completed.
C16_WriterAfterAllSearches ==
    /\ pc = "searching" =>
          /\ Len(tasks) = Len(frame.plan.searches)
          /\ remote.searcher <= Len(tasks)
          /\ \A i \in DOMAIN tasks : tasks[i] # "running" => Called(i)
          /\ TasksIn("running") # {} \/ completed # <<>>
          /\ remote.writer = 0
    /\ pc \in {"writing", "await_writer"} \cup AfterWriting =>
          /\ Len(tasks) = Len(frame.plan.searches)
          /\ tasks # <<>>
          /\ remote.searcher = Len(tasks)
          /\ completed = <<>>
          /\ TasksIn("running") = {}
          /\ TasksIn("done") \cup TasksIn("failed") = DOMAIN tasks
    /\ (remote.writer > 0 /\ pc # "done") =>
          TasksIn("running") = {} /\ Len(results) = Cardinality(TasksIn("done"))

\* C16 witness: the second search completed before the first, and the writer
\* agent is being called with both results.
C16_Witness ==
    /\ pc = "await_writer"
    /\ remote.writer = 1
    /\ results = <<SearchResult(2), SearchResult(1)>>
    /\ TasksIn("done") = {1, 2}

\* The current run ended in the Searching stage, cancelled or closed: after its
\* starting event and before its writing event.
CancelledWhileSearching ==
    /\ pc = "cancelled"
    /\ Len(stream) = 3
    /\ stream[3] \in {StartingEvent(n) : n \in 1..MaxPlan}

\* The search tasks of cancelled runs that are still running.
OrphanTasks ==
    {ij \in (DOMAIN abandoned) \X (1..MaxPlan) :
        /\ ij[2] \in DOMAIN abandoned[ij[1]].tasks
        /\ abandoned[ij[1]].tasks[ij[2]] = "running"}

\* C17 as stated: once a run is cancelled in the Searching stage, none of its
\* search tasks is still running (each had completed or was cancelled), and
\* neither the writer agent nor the email agent is called and the report is
\* not yielded.
C17_Original ==
    /\ OrphanTasks = {}
    /\ CancelledWhileSearching =>
          /\ remote.writer = 0
          /\ remote.email = 0
          /\ ~BodyYielded

\* C18: no agent call is made a second time: in one run the planner agent, the
\* writer agent and the email agent are called at most once each and the search
\* agent once per search of the plan, and a run that ended with the failure of
\* a stage called that stage's agent exactly once.
C18_NoRetry ==
    /\ remote.planner <= 1
    /\ remote.writer <= 1
    /\ remote.email <= 1
    /\ tasks # <<>> =>
          /\ remote.searcher <= Len(tasks)
          /\ pc # "searching" => remote.searcher = Len(tasks)
    /\ (remote.searcher > 0 /\ pc # "searching") =>
          Len(stream) >= 3 /\ stream[3] = StartingEvent(remote.searcher)
    /\ remote.searcher <= MaxPlan
    /\ \A i \in 1..Len(stream) :
          /\ FailedStage(stream[i]) = "Search Planner failed: "
                => remote.planner = 1 /\ remote.searcher = 0
          /\ FailedStage(stream[i]) = "Report Writing failed: " => remote.writer = 1
          /\ FailedStage(stream[i]) = "Email sending failed: " => remote.email = 1

\* C18 witness: the email agent raised after two searches; the run ended with each agent called once and the search agent twice.
C18_Witness ==
    /\ pc = "done"
    /\ FailedStage(stream[Len(stream)]) = "Email sending failed: "
    /\ remote = [planner |-> 1, searcher |-> 2, writer |-> 1, email |-> 1]

\* The number of values a run at position p has yielded.
YieldedAt(p) ==
    CASE p = "trace" -> 1
      [] p \in {"planning", "await_planner"} -> 2
      [] p \in {"starting", "searching"} -> 3
      [] p \in {"writing", "await_writer"} -> 4
      [] p \in {"sending", "await_email", "skipped"} -> 5
      [] p = "sent" -> 6
      [] p = "report" -> IF Yielded(SkippedEvent) THEN 6 ELSE 7

\* The value at place i of the stream is the progress event of the transition
\* that comes i-th: the trace line, then planning, searching, writing, delivering
\* or skipping, and the completed delivery.
EventInPlace(i) ==
    CASE i = 1 -> IsTrace(stream[1])
      [] i = 2 -> stream[2] = PlanningEvent
      [] i = 3 -> \E n \in 1..MaxPlan : stream[3] = StartingEvent(n)
      [] i = 4 -> stream[4] = WritingEvent
      [] i = 5 -> stream[5] = SkippedEvent \/ stream[5][1] = "Sending report to "
      [] i = 6 -> stream[5][1] = "Sending report to " /\ stream[6][1] = "Report sent to "
      [] OTHER -> FALSE

\* C19: entering Planning, Searching, Writing and Delivering or
\* SkippingDelivery each puts exactly one progress event on the stream, in the
\* order of the transitions: after the trace line the stream of a run at any
\* position holds the planning event, the starting event with the size of the
\* plan, the writing event and the sending or skipped event of the stages
\* entered so far, one each, and nothing else before the sent event of a
\* completed delivery, the report or the failure message.
C19_OneEventPerStage ==
    /\ pc \notin {"idle"} \cup Stopped =>
          /\ Len(stream) = YieldedAt(pc)
          /\ \A i \in 1..Len(stream) : i < Len(stream) \/ pc # "report" => EventInPlace(i)
          /\ Len(stream) >= 3 => stream[3] = StartingEvent(Len(frame.plan.searches))
          /\ Len(stream) >= 5 =>
                IF WantsEmail(frame.send_email, frame.recipient_email)
                THEN stream[5] = SendingEvent(frame.recipient_email)
                ELSE stream[5] = SkippedEvent
    /\ (pc \in Stopped /\ ~RejectedAtEntry) =>
          /\ \A i \in 1..(Len(stream) - 1) : EventInPlace(i)
          /\ IsFailure(stream[Len(stream)]) \/ stream[Len(stream)] \in Bodies
    /\ \A e \in {PlanningEvent, WritingEvent, SkippedEvent} :
          Cardinality({i \in 1..Len(stream) : stream[i] = e}) <= 1
    /\ \A h \in {"Starting ", "Sending report to ", "Report sent to "} :
          Cardinality({i \in 1..Len(stream) : stream[i][1] = h}) <= 1

\* C19 witness: a run with delivery has entered Delivering; its stream is the
\* trace line and one event for each of the four stages entered.
C19_Witness ==
    /\ pc = "sending"
    /\ Len(stream) = 5
    /\ stream[2] = PlanningEvent
    /\ stream[3] = StartingEvent(2)
    /\ stream[4] = WritingEvent
    /\ stream[5][1] = "Sending report to "

\* The limiter's state for one identifier before any check.
FreshState == [times |-> <<>>, data |-> [date |-> NoDate, count |-> 0]]

\* The calls made on the limiter for user u, check_limits and
\* cleanup_old_requests alike, oldest first.
UserOps(u) == SelectSeq(calls, LAMBDA c : c.user = u)

\* C20: a rate-limiter call for one identifier, a check_limits allowed or
\* denied or a cleanup_old_requests, leaves the timestamp list, date and counter
\* of every other identifier unchanged: every call finds exactly the list, date
\* and counter that the previous call for the same identifier left (the fresh
\* state if there was none), whatever calls for other identifiers came in
\* between; a check answers as check_limits does on that state, so its outcome
\* does not depend on the calls made for others, and the limiter holds for each
\* identifier exactly what its own last call left.
C20_IdentifiersIndependent ==
    \A u \in UserIds :
        LET cs == UserOps(u)
            Left(k) == IF k = 0 THEN FreshState
                       ELSE [times |-> cs[k].times_after, data |-> cs[k].data_after]
        IN  /\ \A k \in 1..Len(cs) :
                  LET r == check_limits(Left(k - 1).times, Left(k - 1).data, cs[k].at,
                                        requests_per_minute, daily_limit)
                  IN  /\ cs[k].times_before = Left(k - 1).times
                      /\ cs[k].data_before = Left(k - 1).data
                      /\ IF cs[k].op = "check_limits"
                         THEN /\ cs[k].ok = r.ok
                              /\ cs[k].msg = r.msg
                              /\ cs[k].times_after = r.times
                              /\ cs[k].data_after = r.data
                         ELSE /\ cs[k].times_after =
                                    cleanup_old_requests(Left(k - 1).times, cs[k].at)
                              /\ cs[k].data_after = Left(k - 1).data
            /\ request_time[u] = Left(Len(cs)).times
            /\ daily_counts[u] = Left(Len(cs)).data

\* C20 witness: one identifier was admitted; then a second was admitted and a
\* cleanup_old_requests call a minute later emptied the second's list; then the
\* first was checked again and found the list, date and counter its own check
\* had left, the expired timestamp still in the list.
C20_Witness ==
    /\ Len(calls) = 4
    /\ calls[1].user = calls[4].user
    /\ calls[2].user # calls[1].user /\ calls[3].user = calls[2].user
    /\ calls[1].op = "check_limits" /\ calls[1].ok
    /\ calls[2].op = "check_limits" /\ calls[2].ok
    /\ calls[3].op = "cleanup_old_requests"
    /\ calls[3].times_before # <<>> /\ calls[3].times_after = <<>>
    /\ calls[4].op = "check_limits"
    /\ calls[4].times_before = calls[1].times_after
    /\ calls[4].times_before # <<>>
    /\ calls[4].data_before = calls[1].data_after

\* The time of the last check_limits call for user u (0 if there was none).
LastCheckAt(u) == IF UserCalls(u) = <<>> THEN 0 ELSE UserCalls(u)[Len(UserCalls(u))].at

\* C21: after any sequence of check_limits calls with a clock that never goes
\* back, for every identifier the stored timestamps younger than 60 seconds at
\* the time of its last check are at most requests_per_minute, the daily
\* counter is at most daily_limit, and the daily counter is the number of
\* checks of that identifier that returned Allowed on the stored date.
C21_LimiterInvariant ==
    \A u \in UserIds :
        /\ Len(Recent(request_time[u], LastCheckAt(u))) <= requests_per_minute
        /\ daily_counts[u].count <= daily_limit
        /\ daily_counts[u].count =
              AllowedOnDay(UserCalls(u), Len(UserCalls(u)), daily_counts[u].date)
        /\ \A k \in 1..(Len(calls) - 1) : calls[k].at <= calls[k + 1].at

\* C21 witness: an identifier was admitted on one day, and on the next day was
\* admitted up to the per-minute limit and then denied: the stored date is the
\* second day and the counter counts that day's admitted checks only.
C21_Witness ==
    \E u \in UserIds :
        LET cs == UserCalls(u)
        IN  /\ Len(cs) >= 3
            /\ cs[1].ok
            /\ get_today(cs[1].at) < daily_counts[u].date
            /\ ~cs[Len(cs)].ok
            /\ daily_counts[u].count = requests_per_minute
            /\ Len(request_time[u]) = requests_per_minute

\* The admission records of the last research request and the last
\* clarification request.
Admissions == {admission, cadmission}

\* The daily count the check c found for its day: the stored one, or 0 on a new day.
CountFound(c) ==
    IF c.data_before.date = get_today(c.at) THEN c.data_before.count ELSE 0

\* C22: clarification requests and research requests draw on one quota per
\* identifier, that of the global rate limiter.  An admitted request of either
\* kind takes one slot of the minute window and one of the day, and keeps them
\* whatever becomes of the request (the run may fail): while the stored date
\* is its day the counter is not below what the request left, and its
\* timestamp stays in the window until a later check finds it 60 seconds old.
\* With 2 per minute and 2 per day, a request that finds two admitted requests
\* of its identifier on its day, be they clarifications or runs, is denied.
C22_SharedQuotaNoRefund ==
    /\ requests_per_minute = GlobalRequestsPerMinute
    /\ daily_limit = GlobalDailyLimit
    /\ \A c \in Admissions :
          /\ c.ok =>
                /\ c.data_after = [date |-> get_today(c.at), count |-> CountFound(c) + 1]
                /\ c.times_after = Append(Recent(c.times_before, c.at), c.at)
                /\ daily_counts[c.user].date = c.data_after.date
                      => daily_counts[c.user].count >= c.data_after.count
                /\ clock - c.at < WindowSeconds
                      => \E i \in 1..Len(request_time[c.user]) :
                            request_time[c.user][i] = c.at
          /\ (c.user # "" /\ CountFound(c) >= GlobalDailyLimit) => ~c.ok
          /\ (c.user # "" /\ ~c.ok) =>
                /\ c.data_after.count = c.data_before.count
                /\ CountFound(c) >= GlobalDailyLimit
                      \/ Len(Recent(c.times_before, c.at)) >= GlobalRequestsPerMinute
    /\ (admission.ok /\ cadmission.ok /\ admission.user = cadmission.user
            /\ admission.data_after.date = cadmission.data_after.date) =>
          /\ {admission.data_after.count, cadmission.data_after.count} = {1, 2}
          /\ daily_counts[admission.user].date = admission.data_after.date
                => daily_counts[admission.user].count = GlobalDailyLimit

\* C22 witness: an identifier made an admitted clarification request and an
\* admitted research request whose run failed; its next clarification request,
\* a minute later on the same day, is denied for the daily limit.
C22_Witness ==
    /\ runs = 1 /\ clarifies = 2
    /\ admission.ok
    /\ pc = "done" /\ IsFailure(stream[Len(stream)])
    /\ cpc = "returned"
    /\ ~cadmission.ok
    /\ cadmission.user = admission.user
    /\ cadmission.msg = DailyReason(GlobalDailyLimit)
    /\ cadmission.data_before = [date |-> get_today(admission.at), count |-> 2]
    /\ cadmission.at >= admission.at + WindowSeconds

====
